---- MODULE Spec2Model ----
(***************************************************************************)
(* Model of the impact-analyzer service                                    *)
(* (services/impact-analyzer/src/main.py): ImpactAnalyzer.analyze_impact,  *)
(* calculate_criticality, _extract_services and _generate_recommendations. *)
(*                                                                         *)
(* A Python str is a sequence of one-character strings, so that split,     *)
(* lower, substring search and sorting are computed and not assumed.       *)
(* A float is an exact fraction <<numerator, denominator>> with a positive *)
(* denominator; IEEE rounding is not modelled. A score whose exact value   *)
(* lies on a threshold can compare differently in binary64: the exact      *)
(* 0.5*0.4 + 0.5*0.2 + 1.0*0.3 + 1.0*0.1 = 0.7 is 0.7000000000000001 there.*)
(***************************************************************************)
EXTENDS Integers, Sequences, FiniteSets, TLC

\* ------------------------------------------------------------------ bounds
MaxNodes == 3
MaxEdges == 4
MaxChanged == 2
MaxComponents == 2
MaxScored == 5

\* ---------------------------------------------------------------- strings
\* Code points of the characters that occur in the modelled paths.
Ord ==
  ("." :> 46) @@ ("/" :> 47) @@ ("A" :> 65) @@ ("D" :> 68) @@ ("I" :> 73) @@ ("P" :> 80) @@
  ("S" :> 83) @@ ("a" :> 97) @@ ("b" :> 98) @@ ("c" :> 99) @@ ("d" :> 100) @@
  ("e" :> 101) @@ ("h" :> 104) @@ ("i" :> 105) @@ ("l" :> 108) @@
  ("p" :> 112) @@ ("r" :> 114) @@ ("s" :> 115) @@ ("t" :> 116) @@
  ("u" :> 117) @@ ("v" :> 118) @@ ("x" :> 120) @@ ("y" :> 121)

Chr(n) == CHOOSE c \in DOMAIN Ord : Ord[c] = n

\* str.lower(), one character: an upper-case letter moves 32 code points up.
LowerChar(c) == IF Ord[c] >= 65 /\ Ord[c] <= 90 THEN Chr(Ord[c] + 32) ELSE c

\* str.lower()
Lower(s) == [i \in 1..Len(s) |-> LowerChar(s[i])]

\* Python "sub in s"
Contains(sub, s) ==
  \E i \in 0..(Len(s) - Len(sub)) : SubSeq(s, i + 1, i + Len(sub)) = sub

\* str.split(sep) for a one-character separator: empty segments are kept.
RECURSIVE Split(_, _)
Split(s, sep) ==
  IF \A i \in 1..Len(s) : s[i] # sep
  THEN <<s>>
  ELSE LET i == CHOOSE k \in 1..Len(s) :
                  s[k] = sep /\ \A j \in 1..(k - 1) : s[j] # sep
       IN <<SubSeq(s, 1, i - 1)>> \o Split(SubSeq(s, i + 1, Len(s)), sep)

\* Python's order on str: lexicographic by code point, a proper prefix first.
StrLess(a, b) ==
  \E k \in 0..Len(a) :
    /\ k <= Len(b)
    /\ \A j \in 1..k : a[j] = b[j]
    /\ \/ k = Len(a) /\ k < Len(b)
       \/ k < Len(a) /\ k < Len(b) /\ Ord[a[k + 1]] < Ord[b[k + 1]]

\* sorted(list(S)) for a set S of str
RECURSIVE Sorted(_)
Sorted(S) ==
  IF S = {} THEN <<>>
  ELSE LET m == CHOOSE x \in S : \A y \in S \ {x} : StrLess(x, y)
       IN <<m>> \o Sorted(S \ {m})

\* set(list)
ToSet(seq) == {seq[i] : i \in 1..Len(seq)}

\* ------------------------------------------------------------ path literals
SERVICES == <<"s", "e", "r", "v", "i", "c", "e", "s">>
DATABASE == <<"d", "a", "t", "a", "b", "a", "s", "e">>
API == <<"a", "p", "i">>
AUTH == <<"a", "u", "t", "h">>
SECURITY == <<"s", "e", "c", "u", "r", "i", "t", "y">>
SLASH == "/"

\* "services/pay/a"
F1 == SERVICES \o <<"/", "p", "a", "y", "/", "a">>
\* "services/pay/b"
F2 == SERVICES \o <<"/", "p", "a", "y", "/", "b">>
\* "services/auth/c"
F3 == SERVICES \o <<"/", "a", "u", "t", "h", "/", "c">>
\* "lib/API.py"
F4 == <<"l", "i", "b", "/", "A", "P", "I", ".", "p", "y">>
\* "services"
F5 == SERVICES
\* "Services/x/y"
F6 == <<"S", "e", "r", "v", "i", "c", "e", "s", "/", "x", "/", "y">>
\* "services//x"
F7 == SERVICES \o <<"/", "/", "x">>
\* "x/services/pay"
F8 == <<"x", "/">> \o SERVICES \o <<"/", "p", "a", "y">>
\* "src/Database/api.py"
F9 == <<"s", "r", "c", "/", "D", "a", "t", "a", "b", "a", "s", "e", "/", "a", "p", "i", ".", "p", "y">>
\* "src/security.py"
F10 == <<"s", "r", "c", "/">> \o SECURITY \o <<".", "p", "y">>
\* "data/base"
F11 == <<"d", "a", "t", "a", "/", "b", "a", "s", "e">>

\* Node ids a dependency graph is drawn from.
NodeIds == {F1, F2, F3, F4}
\* Paths a request's changed_files are drawn from.
FileIds == {F1, F4}
\* Paths handed to _extract_services and _generate_recommendations directly.
PathIds == {F1, F2, F3, F4, F5, F6, F7, F8, F9, F10, F11}

\* --------------------------------------------------------------- fractions
RECURSIVE GCD(_, _)
GCD(a, b) == IF b = 0 THEN a ELSE GCD(b, a % b)

Abs(n) == IF n < 0 THEN -n ELSE n

\* The fraction n/d (d > 0) in lowest terms.
Frac(n, d) == LET g == GCD(Abs(n), d) IN <<n \div g, d \div g>>

FAdd(a, b) == Frac(a[1] * b[2] + b[1] * a[2], a[2] * b[2])
FMul(a, b) == Frac(a[1] * b[1], a[2] * b[2])
FLess(a, b) == a[1] * b[2] < b[1] * a[2]
FMax(a, b) == IF FLess(a, b) THEN b ELSE a
FMin(a, b) == IF FLess(b, a) THEN b ELSE a
FZero == <<0, 1>>
FOne == <<1, 1>>

\* sum(f.values()) for a function f to fractions
RECURSIVE FSum(_)
FSum(f) ==
  IF DOMAIN f = {} THEN FZero
  ELSE LET x == CHOOSE y \in DOMAIN f : TRUE
       IN FAdd(f[x], FSum([y \in DOMAIN f \ {x} |-> f[y]]))

\* sum(f.values()) for a function f to integers
RECURSIVE ISum(_)
ISum(f) ==
  IF DOMAIN f = {} THEN 0
  ELSE LET x == CHOOSE y \in DOMAIN f : TRUE
       IN f[x] + ISum([y \in DOMAIN f \ {x} |-> f[y]])

\* max of a non-empty set of integers
IMax(S) == CHOOSE x \in S : \A y \in S : y <= x

\* ----------------------------------------------------------------- graphs
\* A DiGraph is [nodes |-> set of ids, edges |-> set of <<source, target>>].
\* A node-link document is [nodes |-> set of ids, links |-> set of
\* <<source, target>>] with "directed": true and "multigraph": false.

\* nx.node_link_graph: every listed node, every link, and the end points of
\* a link (add_edge creates them).
node_link_graph(graph_data) ==
  [nodes |-> graph_data.nodes \cup {l[1] : l \in graph_data.links}
                              \cup {l[2] : l \in graph_data.links},
   edges |-> graph_data.links]

Successors(edges, S) == {e[2] : e \in {d \in edges : d[1] \in S}}
Reverse(edges) == {<<e[2], e[1]>> : e \in edges}

\* Breadth-first search: the nodes reached from `seen`, layer by layer.
RECURSIVE bfs_reach(_, _, _)
bfs_reach(edges, frontier, seen) ==
  LET next == Successors(edges, frontier) \ seen
  IN IF next = {} THEN seen ELSE bfs_reach(edges, next, seen \cup next)

\* nx.descendants(G, source): reachable from source, source excluded.
descendants(graph, source) ==
  bfs_reach(graph.edges, {source}, {source}) \ {source}

\* Mutant of ancestors: the search follows the edges forward.
ancestors_forward(graph, source) ==
  bfs_reach(graph.edges, {source}, {source}) \ {source}

\* nx.ancestors(G, source): nodes with a path to source, source excluded.
ancestors(graph, source) ==
  bfs_reach(Reverse(graph.edges), {source}, {source}) \ {source}

\* Breadth-first search keeping the layer number: reached node -> distance.
RECURSIVE bfs_levels(_, _, _, _)
bfs_levels(edges, frontier, dist, d) ==
  LET next == Successors(edges, frontier) \ DOMAIN dist
  IN IF next = {} THEN dist
     ELSE bfs_levels(edges, next, dist @@ [n \in next |-> d + 1], d + 1)

\* nx.single_source_shortest_path_length over the given edges
shortest_path_length(edges, source) ==
  bfs_levels(edges, {source}, [n \in {source} |-> 0], 0)

\* Number of shortest paths from s to t (t reached from s), dist the
\* distances from s: the sigma of Brandes' algorithm.
RECURSIVE count_paths(_, _, _, _)
count_paths(edges, dist, s, t) ==
  IF t = s THEN 1
  ELSE LET preds == {u \in DOMAIN dist :
                       <<u, t>> \in edges /\ dist[u] + 1 = dist[t]}
       IN ISum([u \in preds |-> count_paths(edges, dist, s, u)])

in_degree(graph, v) == Cardinality({e \in graph.edges : e[2] = v})
out_degree(graph, v) == Cardinality({e \in graph.edges : e[1] = v})
\* DiGraph.degree: in-degree plus out-degree
degree(graph, v) == in_degree(graph, v) + out_degree(graph, v)

\* nx.betweenness_centrality(graph)[v], normalized, directed: the sum over
\* ordered pairs (s, t), both other than v, of the share of the shortest
\* s-t paths through v, divided by (n-1)(n-2) when n > 2.
betweenness_centrality(graph, v) ==
  LET E == graph.edges
      n == Cardinality(graph.nodes)
      dv == shortest_path_length(E, v)
      \* a pair whose source does not reach v, or whose target v does not
      \* reach, has no shortest path through v and adds 0
      into == DOMAIN shortest_path_length(Reverse(E), v)
      pairs == {p \in (into \ {v}) \X (DOMAIN dv \ {v}) : p[1] # p[2]}
      share(p) ==
        LET ds == shortest_path_length(E, p[1])
        IN IF /\ p[2] \in DOMAIN ds
              /\ v \in DOMAIN ds
              /\ p[2] \in DOMAIN dv
              /\ ds[v] + dv[p[2]] = ds[p[2]]
           THEN Frac(count_paths(E, ds, p[1], v) * count_paths(E, dv, v, p[2]),
                     count_paths(E, ds, p[1], p[2]))
           ELSE FZero
      total == FSum([p \in pairs |-> share(p)])
  IN IF n <= 2 THEN total ELSE FMul(total, Frac(1, (n - 1) * (n - 2)))

\* nx.closeness_centrality(graph)[v] (inward distances, wf_improved): with
\* r the number of other nodes that reach v and totsp the sum of their
\* distances, (r / totsp) * (r / (n - 1)); 0 when nothing reaches v.
closeness_centrality(graph, v) ==
  LET sp == shortest_path_length(Reverse(graph.edges), v)
      totsp == ISum(sp)
      n == Cardinality(graph.nodes)
      r == Cardinality(DOMAIN sp) - 1
  IN IF totsp > 0 /\ n > 1
     THEN FMul(Frac(r, totsp), Frac(r, n - 1))
     ELSE FZero

\* ------------------------------------------------- calculate_criticality
W_IN_DEGREE == <<2, 5>>
W_OUT_DEGREE == <<1, 5>>
W_BETWEENNESS == <<3, 10>>
W_CLOSENESS == <<1, 10>>
\* the value returned when the computation raises
DEFAULT_CRITICALITY == <<1, 2>>

\* Mutant of max_degree: the largest in-degree instead of the largest total
\* degree.
max_degree_in_only(graph) ==
  IF graph.nodes = {} THEN 1
  ELSE IMax({1, IMax({in_degree(graph, w) : w \in graph.nodes})})

\* max(1, max(dict(graph.degree()).values()) if graph.degree() else 1)
max_degree(graph) ==
  IF graph.nodes = {} THEN 1
  ELSE IMax({1, IMax({degree(graph, w) : w \in graph.nodes})})

\* Mutant of criticality: the weights of in-degree and out-degree swapped.
criticality_swapped_weights(in_n, out_n, betweenness, closeness) ==
  LET c == FAdd(FAdd(FMul(in_n, W_OUT_DEGREE), FMul(out_n, W_IN_DEGREE)),
                FAdd(FMul(betweenness, W_BETWEENNESS),
                     FMul(closeness, W_CLOSENESS)))
  IN FMin(FOne, FMax(FZero, c))

\* the weighted sum, clamped: min(1.0, max(0.0, criticality))
criticality(in_n, out_n, betweenness, closeness) ==
  LET c == FAdd(FAdd(FMul(in_n, W_IN_DEGREE), FMul(out_n, W_OUT_DEGREE)),
                FAdd(FMul(betweenness, W_BETWEENNESS),
                     FMul(closeness, W_CLOSENESS)))
  IN FMin(FOne, FMax(FZero, c))

\* ImpactAnalyzer.calculate_criticality(node, graph). For a node that is
\* not in the graph in_degree() is a view, the division raises TypeError
\* and the handler returns 0.5.
calculate_criticality(node, graph) ==
  IF node \notin graph.nodes THEN DEFAULT_CRITICALITY
  ELSE LET m == max_degree(graph)
       IN criticality(Frac(in_degree(graph, node), m),
                      Frac(out_degree(graph, node), m),
                      betweenness_centrality(graph, node),
                      closeness_centrality(graph, node))

\* -------------------------------------------------------- analyze_impact
\* Mutant of forward_impact: only the first changed file is followed.
forward_impact_first_only(changed_files, graph) ==
  IF Len(changed_files) > 0 /\ changed_files[1] \in graph.nodes
  THEN descendants(graph, changed_files[1])
  ELSE {}

\* descendants of every changed file that is a node of the graph
forward_impact(changed_files, graph) ==
  UNION {descendants(graph, changed_files[i]) :
           i \in {j \in 1..Len(changed_files) : changed_files[j] \in graph.nodes}}

\* ancestors of every changed file that is a node of the graph
reverse_impact(changed_files, graph) ==
  UNION {ancestors(graph, changed_files[i]) :
           i \in {j \in 1..Len(changed_files) : changed_files[j] \in graph.nodes}}

\* Mutant of impacted_nodes: the set starts empty instead of set(changed_files).
impacted_nodes_unseeded(changed_files, graph) ==
  forward_impact(changed_files, graph) \cup reverse_impact(changed_files, graph)

\* Mutant of impacted_nodes: only the changed files that are nodes of the
\* graph are kept.
impacted_nodes_seed_in_graph(changed_files, graph) ==
  (ToSet(changed_files) \cap graph.nodes)
    \cup forward_impact(changed_files, graph)
    \cup reverse_impact(changed_files, graph)

\* impacted_nodes after the two loops
impacted_nodes(changed_files, graph) ==
  ToSet(changed_files) \cup forward_impact(changed_files, graph)
                       \cup reverse_impact(changed_files, graph)

\* Mutant of scored_nodes: the changed files are scored too.
scored_nodes_all(impacted, changed_files) == impacted

\* the nodes that get a score
scored_nodes(impacted, changed_files) ==
  {node \in impacted : node \notin ToSet(changed_files)}

\* criticality_scores: node -> score
criticality_scores(impacted, changed_files, graph) ==
  [node \in scored_nodes(impacted, changed_files) |->
     calculate_criticality(node, graph)]

HIGH_RISK_SCORE == <<7, 10>>
HIGH_MAX_SCORE == <<17, 20>>
MEDIUM_MAX_SCORE == <<13, 20>>

\* high_risk_areas: the nodes with score > 0.7
high_risk_areas(scores) ==
  {node \in DOMAIN scores : FLess(HIGH_RISK_SCORE, scores[node])}

\* max(criticality_scores.values()) of a non-empty dict
max_score(scores) ==
  LET v == {scores[k] : k \in DOMAIN scores}
  IN CHOOSE x \in v : \A y \in v : ~FLess(x, y)

\* Mutant of risk_level: the HIGH row is tried before the CRITICAL row.
risk_level_high_first(scores) ==
  LET n == Cardinality(high_risk_areas(scores))
  IN IF n >= 3 THEN "HIGH"
     ELSE IF DOMAIN scores = {} THEN "ValueError"
     ELSE IF FLess(HIGH_MAX_SCORE, max_score(scores)) THEN "HIGH"
     ELSE IF n >= 5 THEN "CRITICAL"
     ELSE IF n >= 1 THEN "MEDIUM"
     ELSE IF FLess(MEDIUM_MAX_SCORE, max_score(scores)) THEN "MEDIUM"
     ELSE "LOW"

\* The if/elif chain. "or" evaluates max() only when its left side is
\* false; max() of an empty dict raises ValueError.
risk_level(scores) ==
  LET n == Cardinality(high_risk_areas(scores))
  IN IF n >= 5 THEN "CRITICAL"
     ELSE IF n >= 3 THEN "HIGH"
     ELSE IF DOMAIN scores = {} THEN "ValueError"
     ELSE IF FLess(HIGH_MAX_SCORE, max_score(scores)) THEN "HIGH"
     ELSE IF n >= 1 THEN "MEDIUM"
     ELSE IF FLess(MEDIUM_MAX_SCORE, max_score(scores)) THEN "MEDIUM"
     ELSE "LOW"

\* Mutant of _extract_services: 'services' may be any segment but the last,
\* and the segment after it is taken.
_extract_services_any_segment(components) ==
  Sorted(UNION {{Split(c, SLASH)[i + 1] :
                   i \in {j \in 1..(Len(Split(c, SLASH)) - 1) :
                            Split(c, SLASH)[j] = SERVICES}} :
                c \in components})

\* ImpactAnalyzer._extract_services(components)
_extract_services(components) ==
  Sorted({Split(c, SLASH)[2] :
            c \in {d \in components :
                     /\ Len(Split(d, SLASH)) >= 2
                     /\ Split(d, SLASH)[1] = SERVICES}})

\* A recommendation line: its text and the number an f-string puts in it
\* (0 for a line without one).
Line(text) == [text |-> text, n |-> 0]
LineN(text, n) == [text |-> text, n |-> n]

REC_URGENT == Line("URGENT: Extensive impact detected. Recommend staged rollout with feature flags")
REC_MONITORING == Line("Implement enhanced monitoring and alerting")
REC_ROLLBACK == Line("Consider rolling back plan if issues detected")
REC_HIGH == Line("High impact detected. Plan comprehensive testing")
REC_CAUTION == Line("Deploy with caution, monitor all affected endpoints")
REC_STANDARD == Line("Standard testing procedures recommended")
REC_BLAST(n) == LineN("Large blast radius ({impacted_count} components). Execute thorough integration tests", n)
REC_FOCUS(n) == LineN("Focus testing on {high_risk_count} high-criticality components", n)
REC_DATABASE == Line("Database schema changes detected. Verify migration strategy")
REC_API == Line("API changes detected. Verify backward compatibility")
REC_SECURITY == Line("Security-related changes. Perform security review")

BLAST_RADIUS == 20

\* any(word in f.lower() for f in changed_files)
any_contains(word, changed_files) ==
  \E i \in 1..Len(changed_files) : Contains(word, Lower(changed_files[i]))

\* Mutant of _generate_recommendations: the API line before the database line.
_generate_recommendations_api_first(level, impacted_count, high_risk_count, changed_files) ==
  (IF level = "CRITICAL" THEN <<REC_URGENT, REC_MONITORING, REC_ROLLBACK>>
   ELSE IF level = "HIGH" THEN <<REC_HIGH, REC_CAUTION>>
   ELSE IF level = "MEDIUM" THEN <<REC_STANDARD>>
   ELSE <<>>)
  \o (IF impacted_count > BLAST_RADIUS THEN <<REC_BLAST(impacted_count)>> ELSE <<>>)
  \o (IF high_risk_count > 0 THEN <<REC_FOCUS(high_risk_count)>> ELSE <<>>)
  \o (IF any_contains(API, changed_files) THEN <<REC_API>> ELSE <<>>)
  \o (IF any_contains(DATABASE, changed_files) THEN <<REC_DATABASE>> ELSE <<>>)
  \o (IF any_contains(AUTH, changed_files) \/ any_contains(SECURITY, changed_files)
      THEN <<REC_SECURITY>> ELSE <<>>)

\* ImpactAnalyzer._generate_recommendations
_generate_recommendations(level, impacted_count, high_risk_count, changed_files) ==
  (IF level = "CRITICAL" THEN <<REC_URGENT, REC_MONITORING, REC_ROLLBACK>>
   ELSE IF level = "HIGH" THEN <<REC_HIGH, REC_CAUTION>>
   ELSE IF level = "MEDIUM" THEN <<REC_STANDARD>>
   ELSE <<>>)
  \o (IF impacted_count > BLAST_RADIUS THEN <<REC_BLAST(impacted_count)>> ELSE <<>>)
  \o (IF high_risk_count > 0 THEN <<REC_FOCUS(high_risk_count)>> ELSE <<>>)
  \o (IF any_contains(DATABASE, changed_files) THEN <<REC_DATABASE>> ELSE <<>>)
  \o (IF any_contains(API, changed_files) THEN <<REC_API>> ELSE <<>>)
  \o (IF any_contains(AUTH, changed_files) \/ any_contains(SECURITY, changed_files)
      THEN <<REC_SECURITY>> ELSE <<>>)

\* The result of a call that raised, and of no call yet.
NoResult ==
  [raised |-> FALSE, impacted_components |-> {}, impacted_count |-> 0,
   criticality_scores |-> <<>>, high_risk_areas |-> {}, risk_level |-> "",
   affected_services |-> <<>>, recommendations |-> <<>>, score |-> FZero]

\* ImpactAnalyzer.analyze_impact(changed_files, graph_data): the returned
\* dict, or the exception (logged and raised again). impacted_components
\* and high_risk_areas are lists in set and dict order; their order is not
\* modelled.
analyze_impact(changed_files, graph_data) ==
  LET graph == node_link_graph(graph_data)
      impacted == impacted_nodes(changed_files, graph)
      scores == criticality_scores(impacted, changed_files, graph)
      high == high_risk_areas(scores)
      level == risk_level(scores)
  IN IF level = "ValueError"
     THEN [NoResult EXCEPT !.raised = TRUE]
     ELSE [raised |-> FALSE,
           impacted_components |-> impacted,
           impacted_count |-> Cardinality(impacted),
           criticality_scores |-> scores,
           high_risk_areas |-> high,
           risk_level |-> level,
           affected_services |-> _extract_services(impacted),
           recommendations |->
             _generate_recommendations(level, Cardinality(impacted),
                                       Cardinality(high), changed_files),
           score |-> FZero]

\* ------------------------------------------------------------------ state
\* The service keeps nothing between calls: the state is the call being
\* answered (op, args) and what it returns (result); op is "idle" between
\* two calls.
VARIABLES op, args, result

vars == <<op, args, result>>

NoGraph == [nodes |-> {}, links |-> {}]

NoArgs ==
  [changed_files |-> <<>>, graph_data |-> NoGraph, node |-> <<>>,
   components |-> {}, risk_level |-> "", impacted_count |-> 0,
   high_risk_count |-> 0, scores |-> <<>>]

\* ----------------------------------------------------------------- inputs
\* Node-link documents of a directed graph without self-loops (the graph
\* builder adds none), at most MaxNodes nodes and MaxEdges links.
NodeSets == {s \in SUBSET NodeIds : Cardinality(s) <= MaxNodes}
LinkSets(ns) ==
  {l \in SUBSET {p \in ns \X ns : p[1] # p[2]} : Cardinality(l) <= MaxEdges}

\* changed_files: lists, repetitions allowed, files outside the graph too
ChangedLists(k) == [1..k -> FileIds]

\* sets of component paths
ComponentSets == {s \in SUBSET PathIds : Cardinality(s) <= MaxComponents}

\* arguments of a direct call of _generate_recommendations
RiskLevels == {"CRITICAL", "HIGH", "MEDIUM", "LOW"}
ImpactedCounts == {0, BLAST_RADIUS, BLAST_RADIUS + 1}
HighRiskCounts == {0, 1, 3}
RecPaths == {F1, F3, F4, F9, F10, F11}
RecChangedLists(k) == [1..k -> RecPaths]

\* score maps handed to the risk classification alone: the first n paths
\* scored (n up to MaxScored), each with a value around the three thresholds
ScoreLevels == {<<13, 20>>, <<33, 50>>, <<7, 10>>, <<71, 100>>, <<17, 20>>, <<43, 50>>}
ScoredSeq == <<F1, F2, F3, F4, F5, F6, F7, F8, F9, F10, F11>>
ScoreMaps(n) == [{ScoredSeq[i] : i \in 1..n} -> ScoreLevels]

\* ---------------------------------------------------------------- actions
Init ==
  /\ op = "idle"
  /\ args = NoArgs
  /\ result = NoResult

\* POST /api/v1/analyze/impact, and the tests' analyzer.analyze_impact
AnalyzeImpact ==
  /\ op = "idle"
  /\ \E ns \in NodeSets, k \in 0..MaxChanged :
     \E ls \in LinkSets(ns), cf \in ChangedLists(k) :
     LET g == [nodes |-> ns, links |-> ls] IN
       /\ op' = "analyze_impact"
       /\ args' = [NoArgs EXCEPT !.changed_files = cf, !.graph_data = g]
       /\ result' = analyze_impact(cf, g)

\* analyzer.calculate_criticality(node, graph) on its own
\* (POST /api/v1/criticality/calculate calls it for every node)
CalculateCriticality ==
  /\ op = "idle"
  /\ \E ns \in NodeSets, v \in NodeIds :
     \E ls \in LinkSets(ns) :
     LET g == [nodes |-> ns, links |-> ls] IN
       /\ op' = "calculate_criticality"
       /\ args' = [NoArgs EXCEPT !.graph_data = g, !.node = v]
       /\ result' = [NoResult EXCEPT
                       !.score = calculate_criticality(v, node_link_graph(g))]

\* analyzer._extract_services(components) on its own
ExtractServices ==
  /\ op = "idle"
  /\ \E comps \in ComponentSets :
       /\ op' = "_extract_services"
       /\ args' = [NoArgs EXCEPT !.components = comps]
       /\ result' = [NoResult EXCEPT !.affected_services = _extract_services(comps)]

\* analyzer._generate_recommendations(...) on its own
GenerateRecommendations ==
  /\ op = "idle"
  /\ \E level \in RiskLevels, ic \in ImpactedCounts, hc \in HighRiskCounts,
        k \in 0..MaxChanged :
     \E cf \in RecChangedLists(k) :
       /\ op' = "_generate_recommendations"
       /\ args' = [NoArgs EXCEPT !.risk_level = level, !.impacted_count = ic,
                                 !.high_risk_count = hc, !.changed_files = cf]
       /\ result' = [NoResult EXCEPT
                       !.recommendations = _generate_recommendations(level, ic, hc, cf)]

\* the risk classification of analyze_impact on a given score map
ClassifyRisk ==
  /\ op = "idle"
  /\ \E n \in 0..MaxScored :
     \E scores \in ScoreMaps(n) :
       /\ op' = "classify_risk"
       /\ args' = [NoArgs EXCEPT !.scores = scores]
       /\ result' = IF risk_level(scores) = "ValueError"
                    THEN [NoResult EXCEPT !.raised = TRUE]
                    ELSE [NoResult EXCEPT
                            !.criticality_scores = scores,
                            !.high_risk_areas = high_risk_areas(scores),
                            !.risk_level = risk_level(scores)]

\* the answer is delivered; the service waits for the next call
Return ==
  /\ op # "idle"
  /\ op' = "idle"
  /\ args' = NoArgs
  /\ result' = NoResult

Next ==
  \/ AnalyzeImpact
  \/ CalculateCriticality
  \/ ExtractServices
  \/ GenerateRecommendations
  \/ Return

Spec == Init /\ [][Next]_vars

\* The risk classification applied to score maps drawn from ScoreMaps.
NextRisk == ClassifyRisk \/ Return

SpecRisk == Init /\ [][NextRisk]_vars
\* ===================================================================
\* repository-scanner: DependencyGraphBuilder
\* ===================================================================
\* str.replace(old, new) for one-character old and new
Replace(s, old, new) == [i \in 1..Len(s) |-> IF s[i] = old THEN new ELSE s[i]]

\* str.startswith(prefix)
StartsWith(s, prefix) ==
  Len(prefix) <= Len(s) /\ SubSeq(s, 1, Len(prefix)) = prefix

DOT == "."
SEP == <<":", ":">>

\* "a.py"
P1 == <<"a", ".", "p", "y">>
\* "b.py"
P2 == <<"b", ".", "p", "y">>
\* "ab.py"
P3 == <<"a", "b", ".", "p", "y">>
\* "c.py"
P4 == <<"c", ".", "p", "y">>
FilePaths == {P1, P2, P3, P4}

\* import names: "a", "b", "", "a.b", "zz"
I_A == <<"a">>
I_B == <<"b">>
I_EMPTY == <<>>
I_DOTTED == <<"a", ".", "b">>
I_NONE == <<"z", "z">>

\* symbol names
SYM_F == <<"f">>
SYM_G == <<"g">>

\* What the parser returns for a file it could not parse:
\* {'language': ..., 'error': ...}, no other key.
ErrorResult ==
  [error |-> TRUE, functions |-> {}, classes |-> {}, async_functions |-> {},
   imports |-> <<>>]

\* The record of a parsed file.
Parsed(functions, classes, async_functions, imports) ==
  [error |-> FALSE, functions |-> functions, classes |-> classes,
   async_functions |-> async_functions, imports |-> imports]

\* The records a file path can map to: a file that failed to parse; one
\* without imports, with a function and a class of the same name and a
\* function and an async function of the same name; files with one import, with two, with an empty import
\* name, and with import names that match no path before one that does.
ParseResults ==
  {ErrorResult,
   Parsed({SYM_F, SYM_G}, {SYM_F}, {SYM_G}, <<>>),
   Parsed({}, {}, {}, <<I_A>>),
   Parsed({}, {}, {}, <<I_B>>),
   Parsed({SYM_F}, {}, {}, <<I_EMPTY>>),
   Parsed({}, {}, {}, <<I_A, I_B>>),
   Parsed({}, {}, {}, <<I_DOTTED, I_NONE, I_B>>)}

\* f"{file_path}::{name}"
symbol_id(file_path, name) == file_path \o SEP \o name

\* The attribute 'type' of a node that add_edge created: there is none.
NO_TYPE == "None"

\* Mutant of file_nodes: the first add_node of an id keeps its type.
file_nodes_first_writer(file_path, ast_data) ==
  [n \in {file_path} |-> "file"]
  @@ [n \in {symbol_id(file_path, x) : x \in ast_data.functions} |-> "function"]
  @@ [n \in {symbol_id(file_path, x) : x \in ast_data.classes} |-> "class"]
  @@ [n \in {symbol_id(file_path, x) : x \in ast_data.async_functions}
        |-> "async_function"]

\* First pass, one file: its nodes with their 'type'. A later add_node of
\* the same id replaces the type (functions, then classes, then async).
file_nodes(file_path, ast_data) ==
  [n \in {symbol_id(file_path, x) : x \in ast_data.async_functions}
     |-> "async_function"]
  @@ [n \in {symbol_id(file_path, x) : x \in ast_data.classes} |-> "class"]
  @@ [n \in {symbol_id(file_path, x) : x \in ast_data.functions} |-> "function"]
  @@ [n \in {file_path} |-> "file"]

\* First pass over ast_trees.items(): files with 'error' are skipped.
\* ast_trees is a list of <<file_path, ast_data>> in the dict's order.
RECURSIVE first_pass(_, _)
first_pass(ast_trees, i) ==
  IF i > Len(ast_trees) THEN <<>>
  ELSE IF ast_trees[i][2].error THEN first_pass(ast_trees, i + 1)
  ELSE first_pass(ast_trees, i + 1) @@ file_nodes(ast_trees[i][1], ast_trees[i][2])

\* The test of the edge pass: import_name in other_file, or
\* other_file.replace('/', '.').startswith(import_name.replace('.', '/'))
import_matches(import_name, other_file) ==
  \/ Contains(import_name, other_file)
  \/ StartsWith(Replace(other_file, SLASH, DOT), Replace(import_name, DOT, SLASH))

\* for other_file in ast_trees.keys(): ... break -- the first key that
\* matches, in the dict's order; every key is tried, the importing file and
\* the files with 'error' too. {} when no key matches.
import_target(import_name, ast_trees) ==
  LET hits == {k \in 1..Len(ast_trees) : import_matches(import_name, ast_trees[k][1])}
  IN IF hits = {} THEN {}
     ELSE {ast_trees[CHOOSE k \in hits : \A j \in hits : k <= j][1]}

\* Second pass, one file: the edges its imports add.
file_edges(file_path, ast_data, ast_trees) ==
  {<<file_path, q>> :
     q \in UNION {import_target(ast_data.imports[j], ast_trees) :
                    j \in 1..Len(ast_data.imports)}}

\* Second pass over ast_trees.items(): files with 'error' are skipped.
second_pass(ast_trees) ==
  UNION {file_edges(ast_trees[i][1], ast_trees[i][2], ast_trees) :
           i \in {k \in 1..Len(ast_trees) : ~ast_trees[k][2].error}}

\* The attribute 'data' of edge e after the second pass. add_edge on an
\* edge that exists replaces its attributes, so it is the import_data of
\* the last import of e[1] that resolved to e[2]. An import is modelled by
\* its name.
edge_data(ast_trees, e) ==
  LET i == CHOOSE k \in 1..Len(ast_trees) :
             ast_trees[k][1] = e[1] /\ ~ast_trees[k][2].error
      imports == ast_trees[i][2].imports
      adds == {j \in 1..Len(imports) :
                 import_target(imports[j], ast_trees) = {e[2]}}
  IN imports[CHOOSE j \in adds : \A m \in adds : m <= j]

\* The attribute 'parent_file' of symbol node n: the file_path of the
\* iteration whose add_node wrote it last.
parent_file(ast_trees, n) ==
  LET writers ==
        {i \in 1..Len(ast_trees) :
           /\ ~ast_trees[i][2].error
           /\ \E x \in ast_trees[i][2].functions \cup ast_trees[i][2].classes
                          \cup ast_trees[i][2].async_functions :
                n = symbol_id(ast_trees[i][1], x)}
  IN ast_trees[CHOOSE i \in writers : \A m \in writers : m <= i][1]

\* Mutant of degree_centrality: only the outgoing edges are counted.
degree_centrality_out_only(graph, v) ==
  IF Cardinality(graph.nodes) <= 1 THEN FOne
  ELSE Frac(out_degree(graph, v), Cardinality(graph.nodes) - 1)

\* nx.degree_centrality(graph)[v]: 1 in a graph of one node, else the degree
\* (in plus out) over n - 1.
degree_centrality(graph, v) ==
  IF Cardinality(graph.nodes) <= 1 THEN FOne
  ELSE Frac(degree(graph, v), Cardinality(graph.nodes) - 1)

\* DependencyGraphBuilder.build_graph(ast_trees): the nodes of the first
\* pass and the end points of the edges (add_edge creates a missing node,
\* without attributes), the edges, each of type 'import', and the three
\* centralities set on every node.
build_graph(ast_trees) ==
  LET typed == first_pass(ast_trees, 1)
      edges == second_pass(ast_trees)
      nodes == DOMAIN typed \cup {e[2] : e \in edges}
      g == [nodes |-> nodes, edges |-> edges]
  IN [nodes |-> nodes,
      edges |-> edges,
      type |-> [n \in nodes |-> IF n \in DOMAIN typed THEN typed[n] ELSE NO_TYPE],
      edge_type |-> [e \in edges |-> "import"],
      betweenness_centrality |-> [n \in nodes |-> betweenness_centrality(g, n)],
      closeness_centrality |-> [n \in nodes |-> closeness_centrality(g, n)],
      degree_centrality |-> [n \in nodes |-> degree_centrality(g, n)]]

\* ---------------------------------------------------------------- inputs
MaxFiles == 3

\* The keys of ast_trees: k paths, each once, in any dict order
KeyLists(k) ==
  {ps \in [1..k -> FilePaths] : \A i, j \in 1..k : i # j => ps[i] # ps[j]}

\* graph_builder.build_graph(ast_trees), as the scan and the tests call it;
\* ast_trees has up to MaxFiles files
BuildGraph ==
  /\ op = "idle"
  /\ \E k \in 0..MaxFiles :
     \E ps \in KeyLists(k), rs \in [1..k -> ParseResults] :
     LET t == [i \in 1..k |-> <<ps[i], rs[i]>>] IN
       /\ op' = "build_graph"
       /\ args' = [ast_trees |-> t]
       /\ result' = [graph |-> build_graph(t)]

NextBuild == BuildGraph \/ Return

SpecBuild == Init /\ [][NextBuild]_vars

\* ------------------------------------------------ store and load a graph
\* data.get('type', 'unknown') of a node
UNKNOWN == "unknown"

\* DependencyGraphBuilder._serialize_nodes(graph): one record per node; the
\* order of the list is not modelled.
_serialize_nodes(graph) ==
  {[id |-> n,
    type |-> IF graph.type[n] = NO_TYPE THEN UNKNOWN ELSE graph.type[n],
    betweenness_centrality |-> graph.betweenness_centrality[n],
    closeness_centrality |-> graph.closeness_centrality[n],
    degree_centrality |-> graph.degree_centrality[n]] : n \in graph.nodes}

\* DependencyGraphBuilder._serialize_edges(graph): build_graph sets no
\* 'weight', so data.get('weight', 1) is 1.
_serialize_edges(graph) ==
  {[source |-> e[1], target |-> e[2], type |-> graph.edge_type[e], weight |-> 1] :
     e \in graph.edges}

\* The part of the stored document that load_graph_from_data reads.
graph_document(graph) ==
  [nodes |-> _serialize_nodes(graph), edges |-> _serialize_edges(graph)]

\* dict.get(key, default)
get(d, key, default) == IF key \in DOMAIN d THEN d[key] ELSE default

\* DependencyGraphBuilder.load_graph_from_data(graph_data). A node that
\* only add_edge creates has no attributes. node_data.get('type') and
\* edge_data.get('type') have no default: a missing type is None (NO_TYPE);
\* a missing centrality is 0 and a missing weight is 1.
load_graph_from_data(graph_data) ==
  LET listed == {nd.id : nd \in graph_data.nodes}
      edges == {<<ed.source, ed.target>> : ed \in graph_data.edges}
      nodes == listed \cup {e[1] : e \in edges} \cup {e[2] : e \in edges}
      rec(n) == CHOOSE nd \in graph_data.nodes : nd.id = n
      edge(e) == CHOOSE ed \in graph_data.edges : <<ed.source, ed.target>> = e
  IN [nodes |-> nodes,
      edges |-> edges,
      type |-> [n \in nodes |->
                  IF n \in listed THEN get(rec(n), "type", NO_TYPE) ELSE NO_TYPE],
      edge_type |-> [e \in edges |-> get(edge(e), "type", NO_TYPE)],
      weight |-> [e \in edges |-> get(edge(e), "weight", 1)],
      betweenness_centrality |->
        [n \in listed |-> get(rec(n), "betweenness_centrality", FZero)],
      closeness_centrality |->
        [n \in listed |-> get(rec(n), "closeness_centrality", FZero)],
      degree_centrality |->
        [n \in listed |-> get(rec(n), "degree_centrality", FZero)]]

\* The scan stores the graph it built (store_graph writes the document);
\* a reader loads it back.
StoreAndLoad ==
  /\ op = "idle"
  /\ \E k \in 0..MaxFiles :
     \E ps \in KeyLists(k), rs \in [1..k -> ParseResults] :
     LET t == [i \in 1..k |-> <<ps[i], rs[i]>>]
         g == build_graph(t)
     IN
       /\ op' = "load_graph_from_data"
       /\ args' = [ast_trees |-> t, graph |-> g, graph_data |-> graph_document(g)]
       /\ result' = [graph |-> load_graph_from_data(graph_document(g))]

\* Stored documents whose optional fields may be missing: the nodes a.py
\* and b.py, each with any subset of type and the three centralities, and
\* no link or the link a.py -> b.py with any subset of type and weight.
NodeRecords(id) ==
  {[k \in {"id"} \cup opt |->
      CASE k = "id" -> id
        [] k = "type" -> "file"
        [] OTHER -> Frac(1, 2)] :
     opt \in SUBSET {"type", "betweenness_centrality", "closeness_centrality",
                     "degree_centrality"}}

EdgeRecords ==
  {[k \in {"source", "target"} \cup opt |->
      CASE k = "source" -> P1
        [] k = "target" -> P2
        [] k = "type" -> "import"
        [] OTHER -> 2] :
     opt \in SUBSET {"type", "weight"}}

\* graph_builder.load_graph_from_data(graph_data) on such a document
LoadGraphFromData ==
  /\ op = "idle"
  /\ \E a \in NodeRecords(P1), bs \in SUBSET NodeRecords(P2),
        es \in SUBSET EdgeRecords :
       /\ Cardinality(bs) <= 1
       /\ Cardinality(es) <= 1
       /\ op' = "decode"
       /\ args' = [graph_data |-> [nodes |-> {a} \cup bs, edges |-> es]]
       /\ result' = [graph |-> load_graph_from_data([nodes |-> {a} \cup bs,
                                                    edges |-> es])]

NextDecode == LoadGraphFromData \/ Return

SpecDecode == Init /\ [][NextDecode]_vars

NextCodec == StoreAndLoad \/ Return

SpecCodec == Init /\ [][NextCodec]_vars
\* ===================================================================
\* Properties
\* ===================================================================
\* The last call was analyze_impact and it returned a result.
Analyzed == op = "analyze_impact" /\ ~result.raised

\* The graph and the changed files of the call, read from the request.
ReqNodes == args.graph_data.nodes
ReqLinks == args.graph_data.links
ReqChanged == {args.changed_files[i] : i \in 1..Len(args.changed_files)}

\* The pairs <<u, v>> joined by a path of one or more links, by repeated
\* composition of the link relation with itself.
RECURSIVE PathPairs(_, _)
PathPairs(links, R) ==
  LET R2 == R \cup {<<q[1][1], q[2][2]>> :
                      q \in {x \in R \X links : x[1][2] = x[2][1]}}
  IN IF R2 = R THEN R ELSE PathPairs(links, R2)

\* seed, what the seed reaches, and what reaches the seed
SeedClosure(seed, links) ==
  LET paths == PathPairs(links, links)
  IN seed \cup {p[2] : p \in {x \in paths : x[1] \in seed}}
          \cup {p[1] : p \in {x \in paths : x[2] \in seed}}

\* id starts with "services/": its first segment is 'services' and it has
\* a second one
HasServicesPrefix(id) ==
  /\ Len(id) >= Len(SERVICES) + 1
  /\ SubSeq(id, 1, Len(SERVICES)) = SERVICES
  /\ id[Len(SERVICES) + 1] = "/"

\* the segment after "services/": up to the next '/' or the end
SecondSegment(id) ==
  LET from == Len(SERVICES) + 2
      stops == {i \in from..Len(id) : id[i] = "/"} \cup {Len(id) + 1}
      stop == CHOOSE i \in stops : \A j \in stops : i <= j
  IN SubSeq(id, from, stop - 1)

ServicesOf(ids) == {SecondSegment(id) : id \in {x \in ids : HasServicesPrefix(x)}}

\* C1: when every changed file is a node of the graph, the impacted set
\* analyze_impact returns is exactly the changed files, the nodes reachable
\* from a changed file and the nodes a changed file is reachable from.
C1_ImpactedIsSeedDescendantsAncestors ==
  (Analyzed /\ ReqChanged \subseteq ReqNodes) =>
    result.impacted_components = SeedClosure(ReqChanged, ReqLinks)

\* C1 witness: a changed file with a dependency and a dependent of its own,
\* neither of them changed.
C1_Witness ==
  /\ Analyzed
  /\ ReqChanged \subseteq ReqNodes
  /\ \E c \in ReqChanged, a, d \in ReqNodes \ ReqChanged :
       <<a, c>> \in ReqLinks /\ <<c, d>> \in ReqLinks /\ a # d

\* C2: every changed file is in the impacted set, for any graph and list,
\* and impacted_count is at least the number of distinct changed files.
C2_ChangedFilesAreImpacted ==
  Analyzed =>
    /\ ReqChanged \subseteq result.impacted_components
    /\ result.impacted_count >= Cardinality(ReqChanged)

\* C2 witness: a result for a list with a file that is no node of the graph
\* and a file that is one.
C2_Witness ==
  /\ Analyzed
  /\ ReqChanged \ ReqNodes # {}
  /\ ReqChanged \cap ReqNodes # {}

Above(s, num, den) == s[1] * den > num * s[2]

\* the level the table gives for h high-risk nodes and maximum score top
RiskTable(h, top) ==
  IF h >= 5 THEN "CRITICAL"
  ELSE IF h >= 3 \/ Above(top, 85, 100) THEN "HIGH"
  ELSE IF h >= 1 \/ Above(top, 65, 100) THEN "MEDIUM"
  ELSE "LOW"

\* the last call classified a score map and returned a level
Classified == op = "classify_risk" /\ ~result.raised

\* C4: the risk level is the first matching row of the table for the pair
\* (number of scores above 0.7, maximum score): CRITICAL from 5 high-risk
\* nodes, HIGH from 3 or a maximum above 0.85, MEDIUM from 1 or a maximum
\* above 0.65, LOW otherwise; so equal pairs get equal levels.
C4_RiskLevelIsTableOfPair ==
  Classified =>
    LET scores == result.criticality_scores
        high == {k \in DOMAIN scores : Above(scores[k], 7, 10)}
    IN /\ result.high_risk_areas = high
       /\ \E k \in DOMAIN scores :
            /\ \A j \in DOMAIN scores :
                 scores[j][1] * scores[k][2] <= scores[k][1] * scores[j][2]
            /\ result.risk_level = RiskTable(Cardinality(high), scores[k])

\* C4 witness: five high-risk nodes and a maximum above 0.85, where the
\* CRITICAL row and the HIGH row both match and the first one wins.
C4_Witness ==
  /\ Classified
  /\ Cardinality(result.high_risk_areas) >= 5
  /\ \E k \in DOMAIN result.criticality_scores :
       Above(result.criticality_scores[k], 85, 100)
  /\ result.risk_level = "CRITICAL"

\* the nodes analyze_impact has to score for the request
ReqScored == SeedClosure(ReqChanged \cap ReqNodes, ReqLinks) \ ReqChanged

\* C5: when no node is scored analyze_impact still returns a result, with
\* risk LOW; for the empty graph and no changed file the impacted set and
\* the recommendations are empty.
C5_NothingScoredIsLow ==
  (op = "analyze_impact" /\ ReqScored = {}) =>
    /\ ~result.raised
    /\ result.risk_level = "LOW"
    /\ (ReqNodes = {} /\ ReqChanged = {}) =>
         (result.impacted_components = {} /\ result.recommendations = <<>>)

\* the weighted sum of C6 for node v of the requested graph, as one
\* fraction <<numerator, denominator>>, before clamping
WeightedSum(v) ==
  LET indeg == Cardinality({l \in ReqLinks : l[2] = v})
      outdeg == Cardinality({l \in ReqLinks : l[1] = v})
      deg(w) == Cardinality({l \in ReqLinks : l[1] = w})
                + Cardinality({l \in ReqLinks : l[2] = w})
      degs == {1} \cup {deg(w) : w \in ReqNodes}
      maxdeg == CHOOSE m \in degs : \A x \in degs : x <= m
      G == [nodes |-> ReqNodes, edges |-> ReqLinks]
      b == betweenness_centrality(G, v)
      c == closeness_centrality(G, v)
  IN <<4 * indeg * b[2] * c[2] + 2 * outdeg * b[2] * c[2]
         + 3 * b[1] * maxdeg * c[2] + 1 * c[1] * maxdeg * b[2],
       10 * maxdeg * b[2] * c[2]>>

\* score s is the weighted sum of v clamped to [0, 1]
IsClampedSum(s, v) ==
  LET w == WeightedSum(v)
  IN /\ s[2] > 0 /\ 0 <= s[1] /\ s[1] <= s[2]
     /\ IF w[1] < 0 THEN s[1] = 0
        ELSE IF w[1] > w[2] THEN s[1] = s[2]
        ELSE s[1] * w[2] = w[1] * s[2]

\* C6: for a node v of the graph calculate_criticality returns
\* 0.4 indeg/max_deg + 0.2 outdeg/max_deg + 0.3 betweenness + 0.1 closeness
\* clamped to [0, 1], max_deg the largest total degree and at least 1; the
\* scores of an analysis are these values.
C6_CriticalityIsClampedWeightedSum ==
  /\ (op = "calculate_criticality" /\ args.node \in ReqNodes) =>
       IsClampedSum(result.score, args.node)
  /\ Analyzed =>
       \A k \in DOMAIN result.criticality_scores :
         IsClampedSum(result.criticality_scores[k], k)

\* C6 witness: a node with links in and out, on a shortest path between two
\* other nodes, so that the four terms are all positive.
C6_Witness ==
  /\ op = "calculate_criticality"
  /\ args.node \in ReqNodes
  /\ \E a, d \in ReqNodes \ {args.node} :
       /\ a # d
       /\ <<a, args.node>> \in ReqLinks
       /\ <<args.node, d>> \in ReqLinks
       /\ <<a, d>> \notin ReqLinks
  /\ FLess(FZero, result.score)
\* C7: the keys of criticality_scores are exactly the impacted nodes that
\* are not changed files, and high_risk_areas holds only such keys.
C7_ScoredAreImpactedNotChanged ==
  Analyzed =>
    /\ DOMAIN result.criticality_scores
         = result.impacted_components \ ReqChanged
    /\ result.high_risk_areas \subseteq DOMAIN result.criticality_scores

\* C7 witness: a changed file that another changed file depends on (it is
\* impacted through the graph as well) next to a node that is scored.
C7_Witness ==
  /\ Analyzed
  /\ \E c1, c2 \in ReqChanged : <<c1, c2>> \in ReqLinks
  /\ DOMAIN result.criticality_scores # {}

\* some enumeration of a set as a list
RECURSIVE SeqOf(_)
SeqOf(S) ==
  IF S = {} THEN <<>>
  ELSE LET x == CHOOSE y \in S : TRUE IN <<x>> \o SeqOf(S \ {x})

\* C8: for disjoint sets A and B of nodes of the graph, the impacted set of
\* A and B together is the union of the impacted set of A and that of B.
C8_ImpactIsAdditive ==
  (Analyzed /\ ReqChanged \subseteq ReqNodes) =>
    LET G == node_link_graph(args.graph_data)
    IN \A A \in SUBSET ReqChanged :
         result.impacted_components
           = impacted_nodes(SeqOf(A), G)
               \cup impacted_nodes(SeqOf(ReqChanged \ A), G)

\* C8 witness: two changed files of the graph whose impacted sets differ,
\* neither containing the other.
C8_Witness ==
  /\ Analyzed
  /\ ReqChanged \subseteq ReqNodes
  /\ \E a, b \in ReqChanged :
       LET G == node_link_graph(args.graph_data)
           ia == impacted_nodes(<<a>>, G)
           ib == impacted_nodes(<<b>>, G)
       IN a # b /\ ia \ ib # {} /\ ib \ ia # {}
                /\ ia \ {a} # {} /\ ib \ {b} # {}

\* character c is the lower-case letter w or its upper-case form
SameLetter(c, w) == c = w \/ Ord[c] + 32 = Ord[w]

\* path holds word, whatever the case of the letters of path
Mentions(word, path) ==
  \E i \in 1..Len(path) :
    /\ i + Len(word) - 1 <= Len(path)
    /\ \A j \in 1..Len(word) : SameLetter(path[i + j - 1], word[j])

AnyMentions(word, files) == \E i \in 1..Len(files) : Mentions(word, files[i])

\* the lines in their fixed order, and when each one is due
RecOrder(ic, hc) ==
  <<REC_URGENT, REC_MONITORING, REC_ROLLBACK, REC_HIGH, REC_CAUTION,
    REC_STANDARD, REC_BLAST(ic), REC_FOCUS(hc), REC_DATABASE, REC_API,
    REC_SECURITY>>

RecDue(line, level, ic, hc, files) ==
  \/ line \in {REC_URGENT, REC_MONITORING, REC_ROLLBACK} /\ level = "CRITICAL"
  \/ line \in {REC_HIGH, REC_CAUTION} /\ level = "HIGH"
  \/ line = REC_STANDARD /\ level = "MEDIUM"
  \/ line = REC_BLAST(ic) /\ ic > 20
  \/ line = REC_FOCUS(hc) /\ hc > 0
  \/ line = REC_DATABASE /\ AnyMentions(DATABASE, files)
  \/ line = REC_API /\ AnyMentions(API, files)
  \/ line = REC_SECURITY
       /\ (AnyMentions(AUTH, files) \/ AnyMentions(SECURITY, files))

RecExpected(level, ic, hc, files) ==
  LET due(line) == RecDue(line, level, ic, hc, files)
  IN SelectSeq(RecOrder(ic, hc), due)

\* C9: the recommendations are the due lines in the fixed order: the risk
\* lines of the level (3 for CRITICAL, 2 for HIGH, 1 for MEDIUM, none for
\* LOW), the blast-radius line iff impacted_count > 20, the focus line iff
\* high_risk_count > 0, then the database, API and security lines iff a
\* changed path holds the word, case-insensitively.
C9_RecommendationsInFixedOrder ==
  /\ op = "_generate_recommendations" =>
       result.recommendations
         = RecExpected(args.risk_level, args.impacted_count,
                       args.high_risk_count, args.changed_files)
  /\ Analyzed =>
       result.recommendations
         = RecExpected(result.risk_level, result.impacted_count,
                       Cardinality(result.high_risk_areas), args.changed_files)

\* C9 witness: a CRITICAL call with every predicate true: eight lines.
C9_Witness ==
  /\ op = "_generate_recommendations"
  /\ args.risk_level = "CRITICAL"
  /\ args.impacted_count > 20
  /\ args.high_risk_count > 0
  /\ AnyMentions(DATABASE, args.changed_files)
  /\ AnyMentions(API, args.changed_files)
  /\ AnyMentions(SECURITY, args.changed_files)
  /\ Len(result.recommendations) = 8

IsSortedServicesOf(list, ids) ==
  /\ {list[i] : i \in 1..Len(list)} = ServicesOf(ids)
  /\ \A i, j \in 1..Len(list) : i < j => StrLess(list[i], list[j])

\* C10: affected_services lists, in strictly increasing lexicographic order
\* (so without duplicates), the second segment of every id whose first
\* segment is 'services'; other ids add nothing.
C10_AffectedServicesSortedSecondSegments ==
  /\ op = "_extract_services" =>
       IsSortedServicesOf(result.affected_services, args.components)
  /\ Analyzed =>
       IsSortedServicesOf(result.affected_services, result.impacted_components)

\* C10 witness: three impacted ids under services/, two of them of the same
\* service, give two names in order.
C10_Witness ==
  /\ Analyzed
  /\ Cardinality({x \in result.impacted_components : HasServicesPrefix(x)}) = 3
  /\ Len(result.affected_services) = 2

\* ===================================================================
\* Properties of the dependency graph builder
\* ===================================================================
\* The last call was build_graph.
Built == op = "build_graph"

\* The files of the call, and those whose record has 'error'.
BuiltFiles == {args.ast_trees[i][1] : i \in 1..Len(args.ast_trees)}
ErrorFiles ==
  {args.ast_trees[i][1] :
     i \in {k \in 1..Len(args.ast_trees) : args.ast_trees[k][2].error}}

\* node id n is a symbol node of file f: f, "::", a name
IsSymbolOf(n, f) ==
  /\ Len(n) >= Len(f) + 2
  /\ SubSeq(n, 1, Len(f)) = f
  /\ n[Len(f) + 1] = ":" /\ n[Len(f) + 2] = ":"

\* C11: a file whose record has 'error' contributes nothing to the built
\* graph: its file node and its symbol nodes do not exist and no edge has
\* it as source or target, whatever the other files import.
C11_ErrorFileContributesNothing ==
  Built =>
    \A f \in ErrorFiles :
      /\ f \notin result.graph.nodes
      /\ \A n \in result.graph.nodes : ~IsSymbolOf(n, f)
      /\ \A e \in result.graph.edges : e[1] # f /\ e[2] # f

\* x = <<n, d>> is a fraction in [0, 1]
InUnit(x) == x[2] > 0 /\ 0 <= x[1] /\ x[1] <= x[2]

\* every node of the built graph carries the three centralities
CarriesCentralities ==
  /\ DOMAIN result.graph.degree_centrality = result.graph.nodes
  /\ DOMAIN result.graph.betweenness_centrality = result.graph.nodes
  /\ DOMAIN result.graph.closeness_centrality = result.graph.nodes

TotalDegree(v) ==
  Cardinality({e \in result.graph.edges : e[1] = v})
    + Cardinality({e \in result.graph.edges : e[2] = v})

Loaded == op = "load_graph_from_data"

\* C13: loading the stored nodes and edges of a built graph gives a graph
\* with the same nodes, the same edges, the same kind on every node and
\* edge, and the same three centralities on every node.
C13_StoreLoadRoundTrip ==
  Loaded =>
    /\ result.graph.nodes = args.graph.nodes
    /\ result.graph.edges = args.graph.edges
    /\ result.graph.type = args.graph.type
    /\ result.graph.edge_type = args.graph.edge_type
    /\ result.graph.betweenness_centrality = args.graph.betweenness_centrality
    /\ result.graph.closeness_centrality = args.graph.closeness_centrality
    /\ result.graph.degree_centrality = args.graph.degree_centrality

\* C20: build_graph introduces no self-loop, whatever the files import
\* (their own path, an empty name), and no two nodes share an id.
C20_NoSelfLoopUniqueIds ==
  Built =>
    /\ \A e \in result.graph.edges : e[1] # e[2]
    /\ \A x, y \in _serialize_nodes(result.graph) : x.id = y.id => x = y

\* ===================================================================
\* ai-orchestrator: POST /api/v1/analyze and the WorkflowOrchestrator
\* ===================================================================
\* Optional[T]: None is the empty set, a value v is {v}. An empty dict is
\* the empty function <<>>.
None == {}
Some(v) == {v}
The(o) == CHOOSE v \in o : TRUE

\* --------------------------------------------------------- request models
MAX_DESCRIPTION == 1000
MAX_ID_LENGTH == 100
MAX_ITEMS == 100

\* PromptSecurityValidator.validate_file_path: TRUE when the path is
\* returned, FALSE when ValueError is raised.
validate_file_path(file_path) ==
  /\ ~(Contains(<<".", ".">>, file_path) \/ StartsWith(file_path, <<"/">>))
  /\ \A i \in 1..Len(file_path) :
       file_path[i] \notin {"<", ">", ":", "\"", "|", "?", "*"}

\* The api-gateway's ImpactAnalysisRequest: TRUE when the body validates.
\* The free-text screening of sanitize_input (blocked phrases) is left out:
\* no modelled description holds one; its length test is max_length again.
ImpactAnalysisRequest(body) ==
  LET word ==
        {"a", "b", "c", "d", "e", "f", "g", "h", "i", "j", "k", "l", "m",
         "n", "o", "p", "q", "r", "s", "t", "u", "v", "w", "x", "y", "z",
         "A", "B", "C", "D", "E", "F", "G", "H", "I", "J", "K", "L", "M",
         "N", "O", "P", "Q", "R", "S", "T", "U", "V", "W", "X", "Y", "Z",
         "0", "1", "2", "3", "4", "5", "6", "7", "8", "9", "-", "_"}
  IN
  /\ body.change_description # None
  /\ Len(The(body.change_description)) >= 1
  /\ Len(The(body.change_description)) <= MAX_DESCRIPTION
  /\ Len(body.affected_files) <= MAX_ITEMS
  /\ \A i \in 1..Len(body.affected_files) :
       validate_file_path(body.affected_files[i])
  /\ body.repo_id # None
  /\ Len(The(body.repo_id)) >= 1
  /\ Len(The(body.repo_id)) <= MAX_ID_LENGTH
  /\ \A i \in 1..Len(The(body.repo_id)) : The(body.repo_id)[i] \in word

\* The ai-orchestrator's AnalysisRequest: two required str fields and no
\* other constraint. TRUE when the body validates.
AnalysisRequest(body) ==
  /\ body.change_description # None
  /\ body.repo_id # None

\* ---------------------------------------------------------- collaborators
\* What one call of self.llm.invoke gives: an exception ("error"), a reply
\* that is not JSON ("text") or a JSON object ("json") whose numeric
\* entries are `scores`.
Reply(kind, scores) == [kind |-> kind, scores |-> scores, docs |-> <<>>]

\* What self.rag_pipeline gives: no pipeline ("absent"), an exception
\* ("error") or the retrieved documents ("docs").
Retrieval(kind, docs) == [kind |-> kind, scores |-> <<>>, docs |-> docs]

DEFAULT_SCORE == Frac(1, 2)

\* scores.get(key, 0.5)
score_of(scores, key) ==
  IF key \in DOMAIN scores THEN scores[key] ELSE DEFAULT_SCORE

\* ------------------------------------------------------- the six steps
QUERY_PLANNING_FAILED == "Query planning failed"
WORKFLOW_FAILED == "Workflow failed"

\* WorkflowOrchestrator.plan_queries
plan_queries(state, reply) ==
  IF reply.kind = "error"
  THEN [state EXCEPT !.error = Some(QUERY_PLANNING_FAILED)]
  ELSE [state EXCEPT !.workflow_metadata =
          [query_plan |-> Some(IF reply.kind = "json" THEN "plan"
                                                       ELSE "raw_response")]]

\* A list held in a dict of the state: `items` is its set of elements and
\* `len` its length; the order of a list made from a set is not modelled.
ListOf(items, len) == [items |-> items, len |-> len]

\* WorkflowOrchestrator.analyze_dependencies. The documents handed in are
\* well-formed node-link documents, so node_link_graph does not raise.
analyze_dependencies(state) ==
  LET files == state.affected_files
      graph == node_link_graph(The(state.dependency_graph))
      affected == forward_impact(files, graph) \cup reverse_impact(files, graph)
  IN IF state.dependency_graph = None
     THEN [state EXCEPT !.impact_analysis =
             [affected_components |-> ListOf(ToSet(files), Len(files)),
              impact_count |-> None]]
     ELSE [state EXCEPT !.impact_analysis =
             [affected_components |-> ListOf(affected, Cardinality(affected)),
              impact_count |-> Some(Cardinality(affected))]]

\* WorkflowOrchestrator.retrieve_context
retrieve_context(state, retrieval) ==
  [state EXCEPT !.retrieved_context =
     IF retrieval.kind = "docs" THEN retrieval.docs ELSE <<>>]

\* WorkflowOrchestrator.score_impact: the three scores are read from the
\* reply of the language model, 0.5 where it gives none.
score_impact(state, reply) ==
  [state EXCEPT !.criticality_scores =
     IF reply.kind = "json"
     THEN [criticality |-> score_of(reply.scores, "criticality_score"),
           risk |-> score_of(reply.scores, "risk_score"),
           testing_scope |-> score_of(reply.scores, "testing_scope")]
     ELSE [criticality |-> DEFAULT_SCORE, risk |-> DEFAULT_SCORE,
           testing_scope |-> DEFAULT_SCORE]]

\* len(state.get('impact_analysis', {}).get('affected_components', []))
affected_count(state) ==
  IF DOMAIN state.impact_analysis = {} THEN 0
  ELSE state.impact_analysis.affected_components.len

MAX_UNIT_TESTS == 5

\* WorkflowOrchestrator.plan_tests: the reply's plan, the rule-based plan
\* when the reply is not JSON, {"error": ...} when the call raises.
\* unit_tests is the number of test_affected_component_i stubs.
plan_tests(state, reply) ==
  [state EXCEPT !.test_plan =
     CASE reply.kind = "json" -> [source |-> "llm", unit_tests |-> 0]
       [] reply.kind = "text" ->
            [source |-> "heuristic",
             unit_tests |-> IF affected_count(state) < MAX_UNIT_TESTS
                            THEN affected_count(state) ELSE MAX_UNIT_TESTS]
       [] OTHER -> [source |-> "error", unit_tests |-> 0]]

\* WorkflowOrchestrator.generate_report
generate_report(state) ==
  [state EXCEPT !.final_report =
     [repo_id |-> state.repo_id,
      branch |-> state.branch,
      change_description |-> state.change_description,
      impact_analysis |-> state.impact_analysis,
      criticality_scores |-> state.criticality_scores,
      test_plan |-> state.test_plan,
      error |-> state.error]]

\* --------------------------------------------------------- build_workflow
ENTRY == "query_planner"
END == "__end__"

\* workflow.add_edge(start, end), in the order of build_workflow
Edges ==
  {<<"query_planner", "dependency_analyzer">>,
   <<"query_planner", "rag_retriever">>,
   <<"dependency_analyzer", "impact_scorer">>,
   <<"rag_retriever", "impact_scorer">>,
   <<"impact_scorer", "test_planner">>,
   <<"test_planner", "report_generator">>,
   <<"report_generator", END>>}

\* workflow.add_node(name, method): the method of a node applied to the
\* state it is given and to what its collaborator answers
node(n, state, outcome) ==
  CASE n = "query_planner" -> plan_queries(state, outcome)
    [] n = "dependency_analyzer" -> analyze_dependencies(state)
    [] n = "rag_retriever" -> retrieve_context(state, outcome)
    [] n = "impact_scorer" -> score_impact(state, outcome)
    [] n = "test_planner" -> plan_tests(state, outcome)
    [] n = "report_generator" -> generate_report(state)

\* ----------------------------------------------------------------- inputs
\* "fix", "", and a description of MAX_DESCRIPTION + 1 characters
Descriptions ==
  {None, Some(<<>>), Some(<<"f", "i", "x">>),
   Some([i \in 1..(MAX_DESCRIPTION + 1) |-> "x"])}

\* "test_repo" and "test/repo"
RepoIds ==
  {None, Some(<<"t", "e", "s", "t", "_", "r", "e", "p", "o">>),
   Some(<<"t", "e", "s", "t", "/", "r", "e", "p", "o">>)}

\* affected_files with "../a", "/a" and "a?"
UnsafeFileLists ==
  {<<<<".", ".", "/", "a">>>>, <<<<"/", "a">>>>, <<F1, <<"a", "?">>>>}

\* dependency_graph: absent, F2 -> F1 -> F3, and the cycle F1 -> F4 -> F1
RequestGraphs ==
  {None,
   Some([nodes |-> {F1, F2, F3}, links |-> {<<F2, F1>>, <<F1, F3>>}]),
   Some([nodes |-> {F1, F4}, links |-> {<<F1, F4>>, <<F4, F1>>}])}

LLMReplies == {Reply(k, <<>>) : k \in {"error", "text", "json"}}

ScoreReplies ==
  LLMReplies \cup
  {Reply("json", [criticality_score |-> Frac(9, 10)]),
   Reply("json", [criticality_score |-> Frac(1, 5), risk_score |-> Frac(1, 5),
                  testing_scope |-> Frac(1, 5)])}

Retrievals ==
  {Retrieval("absent", <<>>), Retrieval("error", <<>>),
   Retrieval("docs", <<>>), Retrieval("docs", <<"doc">>)}

\* what the collaborator of a node can answer
Outcomes(n) ==
  CASE n \in {"query_planner", "test_planner"} -> LLMReplies
    [] n = "impact_scorer" -> ScoreReplies
    [] n = "rag_retriever" -> Retrievals
    [] OTHER -> {Reply("none", <<>>)}

\* ------------------------------------------------------- analyze_change
\* initial_state of analyze_change; workflow_metadata keeps the query plan
\* only (the analysis id holds a timestamp)
initial_state(body) ==
  [change_description |-> The(body.change_description),
   affected_files |-> body.affected_files,
   repo_id |-> The(body.repo_id),
   branch |-> body.branch,
   dependency_graph |-> body.dependency_graph,
   retrieved_context |-> <<>>,
   impact_analysis |-> <<>>,
   test_plan |-> <<>>,
   criticality_scores |-> <<>>,
   final_report |-> <<>>,
   error |-> None,
   workflow_metadata |-> [query_plan |-> None]]

\* The answer of analyze_change for the state the workflow ended in.
response(final_state) ==
  [status_code |-> 200,
   status |-> IF final_state.error = None THEN "completed" ELSE "failed",
   impact_analysis |-> final_state.impact_analysis,
   criticality_scores |-> final_state.criticality_scores,
   test_plan |-> final_state.test_plan,
   final_report |-> final_state.final_report,
   error |-> final_state.error]

\* POST /api/v1/analyze: FastAPI validates the body against AnalysisRequest
\* and answers 422 when that fails; otherwise the compiled workflow is
\* invoked on the initial state. While the workflow runs, `result` is the
\* run: the channel values, the nodes of the current superstep (active),
\* what each node that ran returned, and the order in which nodes ran.
AnalyzeChange ==
  /\ op = "idle"
  /\ \E d \in Descriptions, r \in RepoIds, g \in RequestGraphs,
        fs \in UNION {ChangedLists(k) : k \in 0..MaxChanged} \cup UnsafeFileLists :
     LET body == [change_description |-> d, affected_files |-> fs,
                  repo_id |-> r, branch |-> <<"m", "a", "i", "n">>,
                  dependency_graph |-> g]
     IN
       /\ op' = "analyze_change"
       /\ args' = [body |-> body]
       /\ result' =
            IF AnalysisRequest(body)
            THEN [phase |-> "running",
                  channels |-> initial_state(body),
                  active |-> {ENTRY},
                  returned |-> <<>>,
                  order |-> <<>>,
                  failed |-> {},
                  response |-> <<>>]
            ELSE [phase |-> "responded", order |-> <<>>,
                  response |-> [status_code |-> 422]]

\* One node of the current superstep runs on the state read from the
\* channels at the start of the superstep. The nodes of a superstep run
\* in parallel: any of them that has not run yet can be next.
RunNode ==
  /\ op = "analyze_change"
  /\ result.phase = "running"
  /\ \E n \in result.active \ DOMAIN result.returned :
     \E o \in Outcomes(n) :
       result' = [result EXCEPT
                    !.returned = (n :> node(n, result.channels, o)) @@ @,
                    !.order = Append(@, n),
                    !.failed = @ \cup (IF o.kind = "error" THEN {n} ELSE {})]
  /\ UNCHANGED <<op, args>>

\* End of a superstep, when every active node has returned. WorkflowState
\* declares no reducer, so every key is a channel that takes one value per
\* step: when two nodes of the step wrote a key, LangGraph raises
\* InvalidUpdateError, invoke() fails and execute_workflow returns the
\* initial state with error = "Workflow failed: ...". Otherwise the values
\* written become the channel values and the nodes the edges lead to are
\* the next superstep; the workflow ends when there is none.
ApplyWrites ==
  /\ op = "analyze_change"
  /\ result.phase = "running"
  /\ result.active # {}
  /\ result.active \subseteq DOMAIN result.returned
  /\ LET writers(key) ==
           {n \in result.active : key \in DOMAIN result.returned[n]}
         conflict ==
           \E key \in DOMAIN result.channels : Cardinality(writers(key)) > 1
         written == result.returned[CHOOSE n \in result.active : TRUE]
         next == {e[2] : e \in {d \in Edges : d[1] \in result.active}} \ {END}
     IN result' =
          IF conflict
          THEN [result EXCEPT
                  !.phase = "finished",
                  !.active = {},
                  !.channels = [initial_state(args.body) EXCEPT
                                  !.error = Some(WORKFLOW_FAILED)]]
          ELSE [result EXCEPT
                  !.phase = IF next = {} THEN "finished" ELSE "running",
                  !.active = next,
                  !.channels = written]
  /\ UNCHANGED <<op, args>>

\* analyze_change formats the response from the final state.
Respond ==
  /\ op = "analyze_change"
  /\ result.phase = "finished"
  /\ result' = [result EXCEPT !.phase = "responded",
                              !.response = response(result.channels)]
  /\ UNCHANGED <<op, args>>

\* The response is sent.
ReturnResponse ==
  /\ op = "analyze_change"
  /\ result.phase = "responded"
  /\ op' = "idle"
  /\ args' = NoArgs
  /\ result' = NoResult

NextFlow == AnalyzeChange \/ RunNode \/ ApplyWrites \/ Respond \/ ReturnResponse

SpecFlow == Init /\ [][NextFlow]_vars

\* ------------------------------------------------- the steps called alone
\* The state the scoring step is given once both branches have returned:
\* the dependency analysis and the retrieval applied to the initial state.
joined_state(body, retrieval) ==
  retrieve_context(analyze_dependencies(initial_state(body)), retrieval)

\* score_impact applied twice to the state of one request (same graph,
\* same changed files): the two runs differ in what the retrieval and the
\* language model answer.
ScoreImpact ==
  /\ op = "idle"
  /\ \E g \in RequestGraphs, k \in 0..MaxChanged :
     \E fs \in ChangedLists(k), c1, c2 \in Retrievals, r1, r2 \in ScoreReplies :
     LET body == [change_description |-> Some(<<"f", "i", "x">>),
                  affected_files |-> fs,
                  repo_id |-> Some(<<"t", "e", "s", "t">>),
                  branch |-> <<"m", "a", "i", "n">>,
                  dependency_graph |-> g]
     IN
       /\ op' = "score_impact"
       /\ args' = [body |-> body, retrievals |-> <<c1, c2>>, replies |-> <<r1, r2>>]
       /\ result' = [first |-> score_impact(joined_state(body, c1), r1),
                     second |-> score_impact(joined_state(body, c2), r2)]

\* plan_tests, then generate_report, on a scored state
PlanTestsAndReport ==
  /\ op = "idle"
  /\ \E g \in RequestGraphs, k \in 0..MaxChanged :
     \E fs \in ChangedLists(k), r1 \in ScoreReplies, r2 \in LLMReplies :
     LET body == [change_description |-> Some(<<"f", "i", "x">>),
                  affected_files |-> fs,
                  repo_id |-> Some(<<"t", "e", "s", "t">>),
                  branch |-> <<"m", "a", "i", "n">>,
                  dependency_graph |-> g]
         scored == score_impact(joined_state(body, Retrieval("docs", <<>>)), r1)
     IN
       /\ op' = "generate_report"
       /\ args' = [body |-> body, replies |-> <<r1, r2>>]
       /\ result' = [state |-> generate_report(plan_tests(scored, r2))]

NextSteps == ScoreImpact \/ PlanTestsAndReport \/ Return

SpecSteps == Init /\ [][NextSteps]_vars

\* ===================================================================
\* Properties of the orchestrator
\* ===================================================================
\* An analyze request is being answered.
Flow == op = "analyze_change"

\* The request passed the endpoint's validation and the workflow was started.
Started == Flow /\ AnalysisRequest(args.body)

\* An analysis: the request also meets the request schema of the gateway.
Analysis == Started /\ ImpactAnalysisRequest(args.body)

\* The workflow of an analysis ended and the answer was formatted.
Answered == Analysis /\ result.phase = "responded"

\* How often node n ran, and whether every run of b came after a run of a.
Times(n) == Cardinality({i \in 1..Len(result.order) : result.order[i] = n})

Before(a, b) ==
  \A j \in 1..Len(result.order) :
    result.order[j] = b => \E i \in 1..(j - 1) : result.order[i] = a

\* C14: within one analysis the scoring step starts only after both the
\* dependency analysis and the context retrieval have completed, it runs
\* exactly once and is given the results of both (impact_analysis and
\* retrieved_context); test planning starts only after scoring and the
\* report only after test planning, whatever the order of the two branches.
C14_ScoringAfterBothBranchesOnce ==
  Analysis =>
    /\ Before("dependency_analyzer", "impact_scorer")
    /\ Before("rag_retriever", "impact_scorer")
    /\ Before("impact_scorer", "test_planner")
    /\ Before("test_planner", "report_generator")
    /\ Times("impact_scorer") <= 1
    /\ "impact_scorer" \in result.active =>
         /\ result.channels.impact_analysis =
              result.returned["dependency_analyzer"].impact_analysis
         /\ result.channels.retrieved_context =
              result.returned["rag_retriever"].retrieved_context
    /\ Answered => Times("impact_scorer") = 1

\* C15: the dependency-analysis step gives the impact engine's impacted set
\* (the changed files, their descendants and their ancestors) when a graph
\* is supplied, and the changed files when none is.
C15_DependencyStepIsImpactEngine ==
  Analysis /\ "dependency_analyzer" \in DOMAIN result.returned =>
    LET out == result.returned["dependency_analyzer"].impact_analysis
        files == args.body.affected_files
    IN out.affected_components.items =
         IF args.body.dependency_graph = None
         THEN ToSet(files)
         ELSE impacted_nodes(files, node_link_graph(The(args.body.dependency_graph)))

\* The risk level an answer carries, "" when it carries none.
RiskLevelOf(answer) ==
  IF "risk_level" \in DOMAIN answer THEN answer.risk_level
  ELSE IF "risk_level" \in DOMAIN answer.impact_analysis
       THEN answer.impact_analysis.risk_level
       ELSE ""

\* C16: a request without dependency graph is answered with status
\* "completed", the changed files as impacted components, no criticality
\* score and risk LOW.
C16_NoGraphCompletedLow ==
  Answered /\ args.body.dependency_graph = None =>
    /\ result.response.status = "completed"
    /\ DOMAIN result.response.impact_analysis # {}
    /\ result.response.impact_analysis.affected_components.items =
         ToSet(args.body.affected_files)
    /\ DOMAIN result.response.criticality_scores = {}
    /\ RiskLevelOf(result.response) = "LOW"

\* C17: when the planner or the retrieval fails and the dependency analysis
\* succeeds, the analysis goes on with defaults and is answered with status
\* "completed" and the error field set; the status is never "failed" for a
\* collaborator failure alone.
C17_CollaboratorFailureStillCompleted ==
  /\ Answered
  /\ result.failed # {}
  /\ "dependency_analyzer" \in DOMAIN result.returned
  /\ result.returned["dependency_analyzer"].error \subseteq
       {QUERY_PLANNING_FAILED}
  => /\ result.response.status = "completed"
     /\ result.response.error # None

\* C18: the criticality scores are a function of the graph and the changed
\* files only: two runs on the same graph and changed files give the same
\* scores, whatever the retrieval and the language model answer.
C18_ScoresIndependentOfCollaborators ==
  op = "score_impact" =>
    result.first.criticality_scores = result.second.criticality_scores

\* C19: a request that violates the request schema (empty or too long
\* description, unsafe file path, repo_id outside [A-Za-z0-9_-]+) is
\* answered 4xx and no workflow step runs for it.
C19_InvalidRequestRejected ==
  Flow /\ ~ImpactAnalysisRequest(args.body) =>
    /\ result.phase = "responded"
    /\ result.response.status_code \in 400..499
    /\ result.order = <<>>

\* ===================================================================
\* Properties of the dependency graph builder: order, resolution, payloads
\* ===================================================================
\* The orderings of a dict of k keys, and ast_trees in ordering p.
Perms(k) == {p \in [1..k -> 1..k] : \A i, j \in 1..k : i # j => p[i] # p[j]}

Reordered(t, p) == [i \in 1..Len(t) |-> t[p[i]]]

\* C21: the nodes and the edges build_graph returns do not depend on the
\* order of the input mapping: every ordering of the same path -> record
\* mapping gives the same node set and the same edge set.
C21_BuildIndependentOfOrder ==
  Built =>
    \A p \in Perms(Len(args.ast_trees)) :
      LET t == Reordered(args.ast_trees, p)
      IN /\ second_pass(t) = result.graph.edges
         /\ DOMAIN first_pass(t, 1) \cup {e[2] : e \in second_pass(t)} =
              result.graph.nodes

\* The records of the call that were parsed, by index.
ParsedIndexes ==
  {k \in 1..Len(args.ast_trees) : ~args.ast_trees[k][2].error}

\* The path import name n resolves to by the stated rule: the first, in
\* lexicographic order, of the paths q with n a substring of q or a prefix
\* of q with '/' turned into '.'; {} when there is none.
FirstSortedMatch(n) ==
  LET hits == {q \in BuiltFiles :
                 Contains(n, q) \/ StartsWith(Replace(q, SLASH, DOT), n)}
  IN IF hits = {} THEN {}
     ELSE {CHOOSE q \in hits : \A r \in hits \ {q} : StrLess(q, r)}

\* C22: each import n of a parsed file p resolves to at most one target,
\* the lexicographically first matching path q; the edge p -> q is added
\* exactly when q is a node other than p, and an import that matches no
\* path adds no edge.
C22_ImportResolvesToFirstSortedMatch ==
  Built =>
    result.graph.edges =
      UNION {{<<args.ast_trees[i][1], q>> :
                q \in {r \in UNION {FirstSortedMatch(args.ast_trees[i][2].imports[j]) :
                                      j \in 1..Len(args.ast_trees[i][2].imports)} :
                         r # args.ast_trees[i][1] /\ r \notin ErrorFiles}} :
             i \in ParsedIndexes}

\* C23: when several imports of a file resolve to the same target there is
\* one edge between the two files and its payload is the first of those
\* imports, in the order of the file's import list.
C23_DuplicateEdgeKeepsFirstPayload ==
  Built =>
    \A i \in ParsedIndexes :
      LET imports == args.ast_trees[i][2].imports IN
      \A j \in 1..Len(imports) :
        \A q \in import_target(imports[j], args.ast_trees) :
          /\ <<args.ast_trees[i][1], q>> \in result.graph.edges
          /\ (\A m \in 1..(j - 1) :
                 import_target(imports[m], args.ast_trees) # {q})
               => edge_data(args.ast_trees, <<args.ast_trees[i][1], q>>) = imports[j]

\* ast_trees with every name kept in the last only of the lists that hold it.
WithoutCollisions(t) ==
  [i \in 1..Len(t) |->
     <<t[i][1],
       [t[i][2] EXCEPT
          !.functions = @ \ (t[i][2].classes \cup t[i][2].async_functions),
          !.classes = @ \ t[i][2].async_functions]>>]

\* C24: a name that a file declares in more than one of functions, classes
\* and async_functions gives one node 'path::name'; its kind is that of the
\* last list that holds it (functions, classes, async functions in that
\* order), its parent_file is the file's path, the file node exists, and
\* the edges are those of the same input without the collision.
C24_SymbolCollisionLastWriterWins ==
  Built =>
    /\ \A i \in ParsedIndexes :
         LET path == args.ast_trees[i][1]
             data == args.ast_trees[i][2]
         IN \A x \in data.functions \cup data.classes \cup data.async_functions :
              /\ symbol_id(path, x) \in result.graph.nodes
              /\ result.graph.type[symbol_id(path, x)] =
                   IF x \in data.async_functions THEN "async_function"
                   ELSE IF x \in data.classes THEN "class" ELSE "function"
              /\ parent_file(args.ast_trees, symbol_id(path, x)) = path
              /\ path \in result.graph.nodes
              /\ result.graph.type[path] = "file"
    /\ result.graph.edges = second_pass(WithoutCollisions(args.ast_trees))

\* A file with a name that is function and class, and a name that is
\* function and async function, was built, and another file imports it.
C24_Witness ==
  /\ Built
  /\ \E i \in ParsedIndexes :
       /\ args.ast_trees[i][2].functions \cap args.ast_trees[i][2].classes # {}
       /\ args.ast_trees[i][2].functions \cap args.ast_trees[i][2].async_functions # {}
       /\ \E e \in result.graph.edges :
            e[2] = args.ast_trees[i][1] /\ e[1] # e[2]

\* C25: decoding a document in which a node lacks its type or a
\* centrality, or a link lacks its type or weight, gives the defaults: node
\* type 'unknown', centrality 0, edge type 'unknown', weight 1.
C25_DecodeDefaults ==
  op = "decode" =>
    /\ \A nd \in args.graph_data.nodes :
         /\ result.graph.type[nd.id] = get(nd, "type", UNKNOWN)
         /\ result.graph.betweenness_centrality[nd.id] =
              get(nd, "betweenness_centrality", FZero)
         /\ result.graph.closeness_centrality[nd.id] =
              get(nd, "closeness_centrality", FZero)
         /\ result.graph.degree_centrality[nd.id] =
              get(nd, "degree_centrality", FZero)
    /\ \A ed \in args.graph_data.edges :
         /\ result.graph.edge_type[<<ed.source, ed.target>>] = get(ed, "type", UNKNOWN)
         /\ result.graph.weight[<<ed.source, ed.target>>] = get(ed, "weight", 1)

\* C26: whenever the planner gives no usable test plan (its call fails or
\* its reply is not JSON), the test plan is the rule-based default, with
\* min(5, number of impacted components) unit tests.
C26_NoUsablePlanGivesDefault ==
  (op = "generate_report" /\ args.replies[2].kind # "json") =>
    LET scored == score_impact(joined_state(args.body, Retrieval("docs", <<>>)),
                               args.replies[1])
        K == IF affected_count(scored) < MAX_UNIT_TESTS
             THEN affected_count(scored) ELSE MAX_UNIT_TESTS
    IN result.state.test_plan = [source |-> "heuristic", unit_tests |-> K]

\* ------------------------------------------------------------------------
\* Properties of the scoring: the upper bound of the criticality
\* ------------------------------------------------------------------------
MAX_CRITICALITY == <<4, 5>>

\* C27: calculate_criticality never returns more than 0.8, so the upper
\* clamp at 1 never changes a value; in an analysis no score exceeds 0.8,
\* the test max_score > 0.85 is never true, and the level is HIGH only with
\* at least 3 high-risk nodes.
C27_CriticalityAtMostFourFifths ==
  /\ op = "calculate_criticality" =>
       /\ ~FLess(MAX_CRITICALITY, result.score)
       /\ FLess(result.score, FOne)
  /\ (op = "analyze_impact" /\ ~result.raised) =>
       /\ \A n \in DOMAIN result.criticality_scores :
            ~FLess(MAX_CRITICALITY, result.criticality_scores[n])
       /\ DOMAIN result.criticality_scores # {} =>
            ~FLess(HIGH_MAX_SCORE, max_score(result.criticality_scores))
       /\ result.risk_level = "HIGH" =>
            Cardinality(result.high_risk_areas) >= 3

\* An analysis whose largest score decides the level: it is above 0.65,
\* and no node is a high-risk node.
C27_Witness ==
  /\ op = "analyze_impact"
  /\ ~result.raised
  /\ result.high_risk_areas = {}
  /\ result.risk_level = "MEDIUM"

\* ------------------------------------------------------------------------
\* Properties of the analysis workflow: the report
\* ------------------------------------------------------------------------
\* C28: every workflow execution reaches report generation, whichever of
\* its steps fail: the final report is populated and its error field is the
\* error recorded in the workflow state.
C28_EveryRunReachesReport ==
  Answered =>
    /\ Times("report_generator") = 1
    /\ DOMAIN result.response.final_report # {}
    /\ result.response.final_report.error = result.response.error

\* ===================================================================
\* Repository scanner: POST /scan and the background task
\* ===================================================================
\* The scanner's state while it serves scans of one (repo_id, branch) is
\* held in `result`: how many POST /scan it has handled (accepted), what
\* each answered (responses), the position of each background task (pc),
\* whether a step of the task raised (raised), the scans collection of
\* MongoDB (scans: per scan_id no document or its status and graph_id), the
\* graphs collection in the order of created_at (graphs) and the Redis
\* entry graph:<repo_id>:<branch> (cache). The graph_id of the graph that
\* scan i stores (a fresh uuid4) is written i.
MaxScans == 2

ScanIds == 1..MaxScans

\* the statement that follows each statement of the try block
NextPc ==
  [update_cloning |-> "clone_repository",
   clone_repository |-> "update_parsing",
   update_parsing |-> "parse_directory",
   parse_directory |-> "update_building",
   update_building |-> "build_graph",
   build_graph |-> "store_graph"]

Scanning == op = "process_repository_scan"

\* the service starts with empty collections and an empty cache
StartScanner ==
  /\ op = "idle"
  /\ op' = "process_repository_scan"
  /\ args' = [repo_id |-> <<"r">>, branch |-> <<"m", "a", "i", "n">>]
  /\ result' = [accepted |-> 0,
                responses |-> [i \in ScanIds |-> "none"],
                pc |-> [i \in ScanIds |-> "none"],
                raised |-> [i \in ScanIds |-> FALSE],
                scans |-> [i \in ScanIds |-> None],
                graphs |-> <<>>,
                cache |-> None]

\* POST /scan: a cached graph is answered 'completed'; otherwise the
\* background task is added and the answer is 'processing'.
\* RedisCache.get_graph returns None when the cache cannot be read.
ScanRepository ==
  /\ Scanning
  /\ result.accepted < MaxScans
  /\ \E hit \in {h \in BOOLEAN : h => result.cache # None} :
       LET i == result.accepted + 1 IN
       /\ result' = IF hit
                    THEN [result EXCEPT !.accepted = i,
                                        !.responses[i] = "completed",
                                        !.pc[i] = "cached"]
                    ELSE [result EXCEPT !.accepted = i,
                                        !.responses[i] = "processing",
                                        !.pc[i] = "update_cloning"]
       /\ UNCHANGED <<op, args>>

\* the handler is entered: the statement raised
Raise(i) == [result EXCEPT !.pc[i] = "update_failed", !.raised[i] = TRUE]

\* await mongodb.update_scan_status(scan_id, "processing", ...): the upsert
\* sets the status, or the call raises
UpdateProcessing(i) ==
  /\ Scanning
  /\ result.pc[i] \in {"update_cloning", "update_parsing", "update_building"}
  /\ \E ok \in BOOLEAN :
       result' = IF ok
                 THEN [result EXCEPT
                         !.pc[i] = NextPc[result.pc[i]],
                         !.scans[i] = Some([status |-> "processing",
                                            graph_id |-> None])]
                 ELSE Raise(i)
  /\ UNCHANGED <<op, args>>

\* clone_repository, parse_directory, build_graph: no await; each returns
\* or raises
Compute(i) ==
  /\ Scanning
  /\ result.pc[i] \in {"clone_repository", "parse_directory", "build_graph"}
  /\ \E ok \in BOOLEAN :
       result' = IF ok
                 THEN [result EXCEPT !.pc[i] = NextPc[result.pc[i]]]
                 ELSE Raise(i)
  /\ UNCHANGED <<op, args>>

\* graph_id = await graph_builder.store_graph(...): created_at is the time
\* of the call and insert_one adds the document, or the call raises
StoreGraph(i) ==
  /\ Scanning
  /\ result.pc[i] = "store_graph"
  /\ \E ok \in BOOLEAN :
       result' = IF ok
                 THEN [result EXCEPT !.pc[i] = "set_graph",
                                     !.graphs = Append(result.graphs, i)]
                 ELSE Raise(i)
  /\ UNCHANGED <<op, args>>

\* await redis_cache.set_graph(...): setex, or a logged warning; it never
\* raises
SetGraph(i) ==
  /\ Scanning
  /\ result.pc[i] = "set_graph"
  /\ \E ok \in BOOLEAN :
       result' = IF ok
                 THEN [result EXCEPT !.pc[i] = "update_completed",
                                     !.cache = Some(i)]
                 ELSE [result EXCEPT !.pc[i] = "update_completed"]
  /\ UNCHANGED <<op, args>>

\* await mongodb.update_scan_status(scan_id, "completed", ..., graph_id)
UpdateCompleted(i) ==
  /\ Scanning
  /\ result.pc[i] = "update_completed"
  /\ \E ok \in BOOLEAN :
       result' = IF ok
                 THEN [result EXCEPT
                         !.pc[i] = "done",
                         !.scans[i] = Some([status |-> "completed",
                                            graph_id |-> Some(i)])]
                 ELSE Raise(i)
  /\ UNCHANGED <<op, args>>

\* except Exception: await mongodb.update_scan_status(scan_id, "failed", ...).
\* $set leaves a graph_id that is there. When this call raises too, the
\* exception leaves the task.
UpdateFailed(i) ==
  /\ Scanning
  /\ result.pc[i] = "update_failed"
  /\ \E ok \in BOOLEAN :
       result' = IF ok
                 THEN [result EXCEPT
                         !.pc[i] = "done",
                         !.scans[i] =
                           Some([status |-> "failed",
                                 graph_id |->
                                   IF result.scans[i] = None THEN None
                                   ELSE The(result.scans[i]).graph_id])]
                 ELSE [result EXCEPT !.pc[i] = "raised"]
  /\ UNCHANGED <<op, args>>

\* a step of one of the background tasks
ScanStep ==
  \E i \in ScanIds :
    \/ UpdateProcessing(i)
    \/ Compute(i)
    \/ StoreGraph(i)
    \/ SetGraph(i)
    \/ UpdateCompleted(i)
    \/ UpdateFailed(i)

NextScan == StartScanner \/ ScanRepository \/ ScanStep \/ Return

SpecScan == Init /\ [][NextScan]_vars

\* The event loop runs every task that can run, and every awaited call
\* returns or raises: a task that has a step to take takes it.
NextScanFair == StartScanner \/ ScanRepository \/ ScanStep

SpecScanFair ==
  Init /\ [][NextScanFair]_vars /\ \A i \in ScanIds :
    WF_vars(UpdateProcessing(i) \/ Compute(i) \/ StoreGraph(i) \/ SetGraph(i)
              \/ UpdateCompleted(i) \/ UpdateFailed(i))

\* ===================================================================
\* Properties of the repository scanner
\* ===================================================================
\* the background task of scan i has ended
Finished(i) == result.pc[i] \in {"done", "raised"}

\* the scans collection holds a terminal status for scan i
Terminal(i) ==
  /\ result.scans[i] # None
  /\ The(result.scans[i]).status \in {"completed", "failed"}

\* C29: every scan that POST /scan accepted with status 'processing'
\* records a terminal status: when its task has ended, the status is
\* 'completed' with the id of the graph it stored if no step raised, and
\* 'failed' if a step raised; it is not left in 'processing'.
C29_EndedScanHasTerminalStatus ==
  Scanning =>
    \A i \in ScanIds :
      (result.responses[i] = "processing" /\ Finished(i)) =>
        /\ Terminal(i)
        /\ result.scans[i] =
             IF result.raised[i]
             THEN Some([status |-> "failed", graph_id |-> None])
             ELSE Some([status |-> "completed", graph_id |-> Some(i)])
        /\ ~result.raised[i] => \E k \in 1..Len(result.graphs) : result.graphs[k] = i

\* The same as a liveness property, for the fair specification: an accepted
\* scan eventually has a terminal status.
AcceptedScanEventuallyTerminal ==
  \A i \in ScanIds :
    (Scanning /\ result.responses[i] = "processing")
      ~> (Scanning /\ Terminal(i))

\* every scan that was posted has been answered from the cache or its task
\* has ended
AllFinished ==
  /\ Scanning
  /\ result.accepted >= 1
  /\ \A i \in 1..result.accepted : result.pc[i] = "cached" \/ Finished(i)

\* C30: once all concurrent scans of the same (repo_id, branch) have
\* finished, the graph_id in the cache is the graph_id of the most recently
\* created stored graph, the one MongoDB.get_graph returns.
C30_CacheHoldsLatestGraph ==
  (AllFinished /\ result.cache # None) =>
    /\ result.graphs # <<>>
    /\ The(result.cache) = result.graphs[Len(result.graphs)]

\* Stored graphs are only added: the graphs collection grows at its end.
StoredGraphsOnlyAdded ==
  [][(Scanning /\ Scanning') =>
       /\ Len(result'.graphs) >= Len(result.graphs)
       /\ SubSeq(result'.graphs, 1, Len(result.graphs)) = result.graphs]_vars
====
